---- MODULE Spec2Model ----
(***************************************************************************)
(* Model of the address part of cli_parse (src/cli.c): the option loop's   *)
(* -4/-6/-m handling, parse_remote_addrs, return_ip_ver, the local          *)
(* interface lookup, conv_params_mcast, conv_list_addrs and                 *)
(* conv_local_addr, run in the order cli_parse calls them.                  *)
(*                                                                         *)
(* Socket addresses are records [fam, n, kind]; an addrinfo chain is a      *)
(* sequence of them.  The chains obtained by parse_remote_addrs live in     *)
(* ai_heap, one cell per resolved argument, with a count of the             *)
(* freeaddrinfo calls made on the cell.  errx()/err()/exit() move the run   *)
(* to stage "fatal".  Port numbers and the numeric options are left out.    *)
(***************************************************************************)
EXTENDS Integers, Sequences, FiniteSets, TLC

VARIABLES stage, trace, err, opts, argv, mcast_addr_s, ip_ver, negotiated,
          ai_list, ai_heap, uaf, ifa_local, ai_local, mcast_addr,
          local_addr, single_addr, freed_items

vars == <<stage, trace, err, opts, argv, mcast_addr_s, ip_ver, negotiated,
          ai_list, ai_heap, uaf, ifa_local, ai_local, mcast_addr,
          local_addr, single_addr, freed_items>>

(* Longest argument vector and longest run of -4/-6 options explored. *)
MaxArgs == 3
MaxOpts == 2

(* ---------------------------------------------------------------------- *)
(* Addresses and the name resolver                                          *)
(* ---------------------------------------------------------------------- *)
NULL == "NULL"
NotYet == -2

U(f, n) == [fam |-> f, n |-> n, kind |-> "uni"]
L(f) == [fam |-> f, n |-> 0, kind |-> "lo"]
M(f, n) == [fam |-> f, n |-> n, kind |-> "mc"]
NoAddr == [fam |-> 0, n |-> 0, kind |-> "none"]

DEFAULT_MCAST4_ADDR == "dm4"
DEFAULT_MCAST6_ADDR == "dm6"

(* What getaddrinfo knows: the chain returned for a label with PF_UNSPEC. *)
Dns(h) ==
  CASE h = "a" -> <<U(4, 1)>>
    [] h = "b" -> <<U(6, 2)>>
    [] h = "d" -> <<U(6, 3), U(4, 3)>>
    [] h = "e" -> <<U(4, 4), U(6, 4)>>
    [] h = "lo" -> <<L(4)>>
    [] h = "alo" -> <<U(4, 1), L(4)>>
    [] h = "m4" -> <<M(4, 9)>>
    [] h = "m6" -> <<M(6, 9)>>
    [] h = "md" -> <<M(6, 8), M(4, 8)>>
    [] h = "dm4" -> <<M(4, 7)>>
    [] h = "dm6" -> <<M(6, 7)>>
    [] OTHER -> <<>>

Hosts == {"a", "b", "d", "e", "lo", "alo", "x"}
McastLabels == {NULL, "m4", "m6", "md", "a"}
IfaSets == { {}, {U(4, 1)}, {U(6, 2)}, {U(6, 3), U(4, 3)}, {U(4, 1), U(6, 4)} }

Range(s) == {s[i] : i \in 1..Len(s)}

SeqsUpTo(S, n) == UNION {[1..k -> S] : k \in 0..n}

af_ai_supported_ipv(a) == IF a.fam \in {4, 6} THEN a.fam ELSE -1

(* af_host_to_ai: the chain for the label restricted to the hinted family; *)
(* the empty chain stands for getaddrinfo failing, which is fatal.         *)
af_host_to_ai(h, ver) ==
  SelectSeq(Dns(h), LAMBDA a : ver = 0 \/ a.fam = ver)

af_ai_deep_supported_ipv(ai) ==
  LET ipv4 == \E a \in Range(ai) : af_ai_supported_ipv(a) = 4
      ipv6 == \E a \in Range(ai) : af_ai_supported_ipv(a) = 6
  IN IF ipv4 /\ ipv6 THEN 0 ELSE IF ipv4 THEN 4 ELSE IF ipv6 THEN 6 ELSE -1

af_ai_deep_is_loopback(ai) == \E a \in Range(ai) : a.kind = "lo"

af_ai_deep_eq(a1, a2) == Range(a1) \cap Range(a2) # {}

af_is_sa_mcast(a) == a.kind = "mc"

(* The chain an item points to. *)
Cand(heap, item) == heap[item.ai].cand

af_is_ai_in_list(ai, list, heap) ==
  \E i \in 1..Len(list) : af_ai_deep_eq(ai, Cand(heap, list[i]))

(* ---------------------------------------------------------------------- *)
(* getopt loop: the last -4/-6 wins                                         *)
(* ---------------------------------------------------------------------- *)
RECURSIVE ForcedVer(_, _)
ForcedVer(os, ver) ==
  IF os = <<>> THEN ver ELSE ForcedVer(Tail(os), Head(os))

(* ---------------------------------------------------------------------- *)
(* parse_remote_addrs                                                       *)
(* ---------------------------------------------------------------------- *)
(* parse_step with the loopback test left out. *)
parse_step_no_loopback_test(av, ver, i, acc) ==
  LET ai_res == af_host_to_ai(av[i], ver) IN
  IF ai_res = <<>> THEN [acc EXCEPT !.err = "resolve"]
  ELSE IF ~af_is_ai_in_list(ai_res, acc.list, acc.heap) THEN
    [acc EXCEPT
       !.heap = Append(@, [cand |-> ai_res, frees |-> 0, stored |-> TRUE]),
       !.list = Append(@, [host_name |-> av[i], ai |-> i, sas |-> NoAddr])]
  ELSE [acc EXCEPT
          !.heap = Append(@, [cand |-> ai_res, frees |-> 1, stored |-> FALSE])]

(* One turn of the for loop over argv. *)
parse_step(av, ver, i, acc) ==
  LET ai_res == af_host_to_ai(av[i], ver) IN
  IF ai_res = <<>> THEN [acc EXCEPT !.err = "resolve"]
  ELSE IF ~af_is_ai_in_list(ai_res, acc.list, acc.heap) THEN
    IF af_ai_deep_is_loopback(ai_res)
    THEN [acc EXCEPT !.err = "loopback",
            !.heap = Append(@, [cand |-> ai_res, frees |-> 0, stored |-> FALSE])]
    ELSE [acc EXCEPT
            !.heap = Append(@, [cand |-> ai_res, frees |-> 0, stored |-> TRUE]),
            !.list = Append(@, [host_name |-> av[i], ai |-> i, sas |-> NoAddr])]
  ELSE [acc EXCEPT
          !.heap = Append(@, [cand |-> ai_res, frees |-> 1, stored |-> FALSE])]

RECURSIVE parse_loop(_, _, _, _)
parse_loop(av, ver, i, acc) ==
  IF i > Len(av) \/ acc.err # "" THEN acc
  ELSE parse_loop(av, ver, i + 1, parse_step(av, ver, i, acc))

parse_remote_addrs(av, ver) ==
  LET r == parse_loop(av, ver, 1, [list |-> <<>>, heap |-> <<>>, err |-> ""])
  IN IF r.err = "" /\ Len(r.list) < 1 THEN [r EXCEPT !.err = "usage"] ELSE r

(* ---------------------------------------------------------------------- *)
(* return_ip_ver                                                            *)
(* ---------------------------------------------------------------------- *)
(* Walk with a required family: the first offending host ends the run. *)
RECURSIVE scan_mcast_ver(_, _, _, _)
scan_mcast_ver(list, heap, mcast_ipver, i) ==
  IF i > Len(list) THEN ""
  ELSE LET ipver_res == af_ai_deep_supported_ipv(Cand(heap, list[i])) IN
    IF ipver_res = -1 THEN "nosupport"
    ELSE IF ipver_res # 0 /\ ipver_res # mcast_ipver THEN "mismatch"
    ELSE scan_mcast_ver(list, heap, mcast_ipver, i + 1)

(* First walk: the value ipver_res holds when the loop is left. *)
RECURSIVE first_ipver_res(_, _, _)
first_ipver_res(list, heap, i) ==
  IF i > Len(list) THEN 0
  ELSE LET ipver_res == af_ai_deep_supported_ipv(Cand(heap, list[i])) IN
    IF ipver_res # 0 THEN ipver_res ELSE first_ipver_res(list, heap, i + 1)

(* scan_pivot_ver comparing each host's family with itself. *)
RECURSIVE scan_pivot_ver_self_compare(_, _, _, _)
scan_pivot_ver_self_compare(list, heap, ipver_res, i) ==
  IF i > Len(list) THEN ""
  ELSE LET ipver_res2 == af_ai_deep_supported_ipv(Cand(heap, list[i])) IN
    IF ipver_res2 = -1 THEN "nosupport"
    ELSE IF ipver_res2 # 0 /\ ipver_res2 # ipver_res2 THEN "mismatch"
    ELSE scan_pivot_ver_self_compare(list, heap, ipver_res, i + 1)

(* Second walk: every host must support ipver_res. *)
RECURSIVE scan_pivot_ver(_, _, _, _)
scan_pivot_ver(list, heap, ipver_res, i) ==
  IF i > Len(list) THEN ""
  ELSE LET ipver_res2 == af_ai_deep_supported_ipv(Cand(heap, list[i])) IN
    IF ipver_res2 = -1 THEN "nosupport"
    ELSE IF ipver_res2 # 0 /\ ipver_res2 # ipver_res THEN "mismatch"
    ELSE scan_pivot_ver(list, heap, ipver_res, i + 1)

(* walk_addresses returning the first single family without the second walk. *)
walk_addresses_no_second_walk(list, heap) ==
  LET ipver_res == first_ipver_res(list, heap, 1) IN
  IF ipver_res = -1 THEN [ret |-> NotYet, err |-> "nosupport"]
  ELSE [ret |-> ipver_res, err |-> ""]

walk_addresses(list, heap) ==
  LET ipver_res == first_ipver_res(list, heap, 1) IN
  IF ipver_res = -1 THEN [ret |-> NotYet, err |-> "nosupport"]
  ELSE IF ipver_res = 0 THEN [ret |-> 0, err |-> ""]
  ELSE LET e == scan_pivot_ver(list, heap, ipver_res, 1) IN
    IF e # "" THEN [ret |-> NotYet, err |-> e]
    ELSE [ret |-> ipver_res, err |-> ""]

(* return_ip_ver without the early return of a forced family. *)
return_ip_ver_no_early_return(ver, mcast, list, heap) ==
  IF mcast # NULL THEN
    LET ai_res == af_host_to_ai(mcast, ver)
        mcast_ipver == af_ai_deep_supported_ipv(ai_res)
    IN IF ai_res = <<>> THEN [ret |-> NotYet, err |-> "resolve"]
       ELSE IF mcast_ipver = -1 THEN [ret |-> NotYet, err |-> "nosupport"]
       ELSE IF mcast_ipver # 0 THEN
         LET e == scan_mcast_ver(list, heap, mcast_ipver, 1) IN
         IF e # "" THEN [ret |-> NotYet, err |-> e]
         ELSE [ret |-> mcast_ipver, err |-> ""]
       ELSE walk_addresses(list, heap)
  ELSE walk_addresses(list, heap)

return_ip_ver(ver, mcast, list, heap) ==
  IF ver # 0 THEN [ret |-> ver, err |-> ""]
  ELSE IF mcast # NULL THEN
    LET ai_res == af_host_to_ai(mcast, ver)
        mcast_ipver == af_ai_deep_supported_ipv(ai_res)
    IN IF ai_res = <<>> THEN [ret |-> NotYet, err |-> "resolve"]
       ELSE IF mcast_ipver = -1 THEN [ret |-> NotYet, err |-> "nosupport"]
       ELSE IF mcast_ipver # 0 THEN
         LET e == scan_mcast_ver(list, heap, mcast_ipver, 1) IN
         IF e # "" THEN [ret |-> NotYet, err |-> e]
         ELSE [ret |-> mcast_ipver, err |-> ""]
       ELSE walk_addresses(list, heap)
  ELSE walk_addresses(list, heap)

(* ---------------------------------------------------------------------- *)
(* af_find_local_ai                                                         *)
(* ---------------------------------------------------------------------- *)
(* Pairs <<item, interface address>> where a candidate of the item is the  *)
(* interface's address and the family is acceptable; IPv6 is preferred     *)
(* when no family is fixed yet.                                            *)
local_matches(list, heap, ver, ifa) ==
  LET all == {m \in (1..Len(list)) \X ifa :
                /\ m[2] \in Range(Cand(heap, list[m[1]]))
                /\ (ver = 0 \/ m[2].fam = ver)}
      six == {m \in all : m[2].fam = 6}
  IN IF ver = 0 /\ six # {} THEN six ELSE all

(* ---------------------------------------------------------------------- *)
(* conv_params_mcast                                                        *)
(* ---------------------------------------------------------------------- *)
(* conv_params_mcast taking the first candidate whatever its family. *)
conv_params_mcast_first_candidate(ver, mcast) ==
  IF mcast = NULL /\ ver \notin {4, 6} THEN [addr |-> NoAddr, err |-> "internal"]
  ELSE
    LET label == IF mcast # NULL THEN mcast
                 ELSE IF ver = 4 THEN DEFAULT_MCAST4_ADDR ELSE DEFAULT_MCAST6_ADDR
        ai_res == af_host_to_ai(label, ver)
    IN IF ai_res = <<>> THEN [addr |-> NoAddr, err |-> "resolve"]
       ELSE IF ~af_is_sa_mcast(Head(ai_res)) THEN [addr |-> Head(ai_res), err |-> "notmcast"]
       ELSE [addr |-> Head(ai_res), err |-> ""]

conv_params_mcast(ver, mcast) ==
  IF mcast = NULL /\ ver \notin {4, 6} THEN [addr |-> NoAddr, err |-> "internal"]
  ELSE
    LET label == IF mcast # NULL THEN mcast
                 ELSE IF ver = 4 THEN DEFAULT_MCAST4_ADDR ELSE DEFAULT_MCAST6_ADDR
        ai_res == af_host_to_ai(label, ver)
        hit == SelectSeq(ai_res, LAMBDA a : af_ai_supported_ipv(a) = ver)
    IN IF ai_res = <<>> THEN [addr |-> NoAddr, err |-> "resolve"]
       ELSE IF hit = <<>> THEN [addr |-> NoAddr, err |-> "internal"]
       ELSE IF ~af_is_sa_mcast(Head(hit)) THEN [addr |-> Head(hit), err |-> "notmcast"]
       ELSE [addr |-> Head(hit), err |-> ""]

(* ---------------------------------------------------------------------- *)
(* conv_list_addrs                                                          *)
(* ---------------------------------------------------------------------- *)
(* conv_list_addrs copying the address without freeaddrinfo. *)
RECURSIVE conv_list_addrs_no_free(_, _, _, _)
conv_list_addrs_no_free(list, heap, ver, i) ==
  IF i > Len(list) THEN [list |-> list, heap |-> heap]
  ELSE LET hit == SelectSeq(Cand(heap, list[i]),
                            LAMBDA a : af_ai_supported_ipv(a) = ver) IN
    IF hit # <<>>
    THEN conv_list_addrs_no_free([list EXCEPT ![i].sas = Head(hit)], heap, ver, i + 1)
    ELSE conv_list_addrs_no_free(list, heap, ver, i + 1)

RECURSIVE conv_list_addrs(_, _, _, _)
conv_list_addrs(list, heap, ver, i) ==
  IF i > Len(list) THEN [list |-> list, heap |-> heap]
  ELSE LET hit == SelectSeq(Cand(heap, list[i]),
                            LAMBDA a : af_ai_supported_ipv(a) = ver) IN
    IF hit # <<>>
    THEN conv_list_addrs([list EXCEPT ![i].sas = Head(hit)],
                         [heap EXCEPT ![list[i].ai].frees = @ + 1], ver, i + 1)
    ELSE conv_list_addrs(list, heap, ver, i + 1)

(* ---------------------------------------------------------------------- *)
(* conv_local_addr                                                          *)
(* ---------------------------------------------------------------------- *)
(* conv_local_addr that never takes the local item out of the list. *)
conv_local_addr_never_remove(list, local, ifa) ==
  LET it == {x \in Range(list) : x.ai = local}
      name == IF it = {} THEN NULL ELSE (CHOOSE x \in it : TRUE).host_name
  IN IF ifa.fam \notin {4, 6}
     THEN [list |-> list, local_addr |-> NoAddr, single |-> FALSE,
           freed |-> {}, err |-> "internal"]
     ELSE [list |-> list,
           local_addr |-> [sas |-> ifa, host_name |-> name],
           single |-> (Len(list) >= 1),
           freed |-> {},
           err |-> ""]

(* conv_local_addr that always takes the local item out of the list. *)
conv_local_addr_always_remove(list, local, ifa) ==
  LET it == {x \in Range(list) : x.ai = local}
      name == IF it = {} THEN NULL ELSE (CHOOSE x \in it : TRUE).host_name
  IN IF ifa.fam \notin {4, 6}
     THEN [list |-> list, local_addr |-> NoAddr, single |-> FALSE,
           freed |-> {}, err |-> "internal"]
     ELSE [list |-> SelectSeq(list, LAMBDA x : x.ai # local),
           local_addr |-> [sas |-> ifa, host_name |-> name],
           single |-> FALSE,
           freed |-> {local},
           err |-> ""]

conv_local_addr(list, local, ifa) ==
  LET it == {x \in Range(list) : x.ai = local}
      name == IF it = {} THEN NULL ELSE (CHOOSE x \in it : TRUE).host_name
      single == (Len(list) = 1)
  IN IF ifa.fam \notin {4, 6}
     THEN [list |-> list, local_addr |-> NoAddr, single |-> FALSE,
           freed |-> {}, err |-> "internal"]
     ELSE [list |-> IF single THEN list
                    ELSE SelectSeq(list, LAMBDA x : x.ai # local),
           local_addr |-> [sas |-> ifa, host_name |-> name],
           single |-> single,
           freed |-> IF single THEN {} ELSE {local},
           err |-> ""]

(* ---------------------------------------------------------------------- *)
(* cli_parse: the order of the calls                                        *)
(* ---------------------------------------------------------------------- *)
(* cli_parse calling conv_local_addr before conv_list_addrs. *)
NextStage_local_before_list(s) ==
  CASE s = "getopt" -> "parse_remote_addrs"
    [] s = "parse_remote_addrs" -> "return_ip_ver"
    [] s = "return_ip_ver" -> "af_find_local_ai"
    [] s = "af_find_local_ai" -> "conv_params_mcast"
    [] s = "conv_params_mcast" -> "conv_local_addr"
    [] s = "conv_local_addr" -> "conv_list_addrs"
    [] OTHER -> "done"

NextStage(s) ==
  CASE s = "getopt" -> "parse_remote_addrs"
    [] s = "parse_remote_addrs" -> "return_ip_ver"
    [] s = "return_ip_ver" -> "af_find_local_ai"
    [] s = "af_find_local_ai" -> "conv_params_mcast"
    [] s = "conv_params_mcast" -> "conv_list_addrs"
    [] s = "conv_list_addrs" -> "conv_local_addr"
    [] OTHER -> "done"

Step(s, e) ==
  /\ stage = s
  /\ trace' = Append(trace, s)
  /\ err' = e
  /\ stage' = IF e # "" THEN "fatal" ELSE NextStage(s)

(* Some chain the list points to has been given back to the resolver. *)
ReadsFreed == \E i \in 1..Len(ai_list) : ai_heap[ai_list[i].ai].frees > 0

Init ==
  /\ stage = "getopt"
  /\ trace = <<>>
  /\ err = ""
  /\ opts = <<>>
  /\ argv = <<>>
  /\ mcast_addr_s = NULL
  /\ ip_ver = 0
  /\ negotiated = NotYet
  /\ ai_list = <<>>
  /\ ai_heap = <<>>
  /\ uaf = FALSE
  /\ ifa_local = NoAddr
  /\ ai_local = NotYet
  /\ mcast_addr = NoAddr
  /\ local_addr = NoAddr
  /\ single_addr = FALSE
  /\ freed_items = {}

Getopt ==
  /\ stage = "getopt"
  /\ \E os \in SeqsUpTo({4, 6}, MaxOpts), m \in McastLabels,
        av \in SeqsUpTo(Hosts, MaxArgs) :
       /\ opts' = os
       /\ mcast_addr_s' = m
       /\ argv' = av
       /\ ip_ver' = ForcedVer(os, 0)
  /\ Step("getopt", "")
  /\ UNCHANGED <<negotiated, ai_list, ai_heap, uaf, ifa_local, ai_local,
                 mcast_addr, local_addr, single_addr, freed_items>>

ParseRemoteAddrs ==
  LET r == parse_remote_addrs(argv, ip_ver) IN
  /\ Step("parse_remote_addrs", r.err)
  /\ ai_list' = r.list
  /\ ai_heap' = r.heap
  /\ UNCHANGED <<opts, argv, mcast_addr_s, ip_ver, negotiated, uaf, ifa_local,
                 ai_local, mcast_addr, local_addr, single_addr, freed_items>>

ReturnIpVer ==
  LET r == return_ip_ver(ip_ver, mcast_addr_s, ai_list, ai_heap) IN
  /\ Step("return_ip_ver", r.err)
  /\ negotiated' = r.ret
  /\ ip_ver' = IF r.err = "" THEN r.ret ELSE ip_ver
  /\ uaf' = (uaf \/ (ip_ver = 0 /\ ReadsFreed))
  /\ UNCHANGED <<opts, argv, mcast_addr_s, ai_list, ai_heap, ifa_local,
                 ai_local, mcast_addr, local_addr, single_addr, freed_items>>

(* cli_parse hands af_find_local_ai a pointer to ip_ver.  A family that is *)
(* already 4 or 6 is kept.  A negotiated 0 is either replaced by the       *)
(* family of the matched interface (the comment above return_ip_ver) or    *)
(* left at 0, in which case conv_params_mcast ends the run.                *)
AfFindLocalAi ==
  /\ stage = "af_find_local_ai"
  /\ \E ifa \in IfaSets :
       LET ms == local_matches(ai_list, ai_heap, ip_ver, ifa) IN
       IF ms = {}
       THEN /\ Step("af_find_local_ai", "nolocal")
            /\ UNCHANGED <<ip_ver, ifa_local, ai_local>>
       ELSE \E m \in ms :
            /\ Step("af_find_local_ai", "")
            /\ ai_local' = ai_list[m[1]].ai
            /\ ifa_local' = m[2]
            /\ ip_ver' \in (IF ip_ver = 0 THEN {0, m[2].fam} ELSE {ip_ver})
  /\ uaf' = (uaf \/ ReadsFreed)
  /\ UNCHANGED <<opts, argv, mcast_addr_s, negotiated, ai_list, ai_heap,
                 mcast_addr, local_addr, single_addr, freed_items>>

ConvParamsMcast ==
  LET r == conv_params_mcast(ip_ver, mcast_addr_s) IN
  /\ Step("conv_params_mcast", r.err)
  /\ mcast_addr' = r.addr
  /\ UNCHANGED <<opts, argv, mcast_addr_s, ip_ver, negotiated, ai_list, ai_heap,
                 uaf, ifa_local, ai_local, local_addr, single_addr, freed_items>>

ConvListAddrs ==
  LET r == conv_list_addrs(ai_list, ai_heap, ip_ver, 1) IN
  /\ Step("conv_list_addrs", "")
  /\ ai_list' = r.list
  /\ ai_heap' = r.heap
  /\ uaf' = (uaf \/ ReadsFreed)
  /\ UNCHANGED <<opts, argv, mcast_addr_s, ip_ver, negotiated, ifa_local,
                 ai_local, mcast_addr, local_addr, single_addr, freed_items>>

ConvLocalAddr ==
  LET r == conv_local_addr(ai_list, ai_local, ifa_local) IN
  /\ Step("conv_local_addr", r.err)
  /\ ai_list' = r.list
  /\ local_addr' = r.local_addr
  /\ single_addr' = r.single
  /\ freed_items' = freed_items \cup r.freed
  /\ UNCHANGED <<opts, argv, mcast_addr_s, ip_ver, negotiated, ai_heap, uaf,
                 ifa_local, ai_local, mcast_addr>>

Next ==
  \/ Getopt
  \/ ParseRemoteAddrs
  \/ ReturnIpVer
  \/ AfFindLocalAi
  \/ ConvParamsMcast
  \/ ConvListAddrs
  \/ ConvLocalAddr

Spec == Init /\ [][Next]_vars

(* ---------------------------------------------------------------------- *)
(* conv_list_addrs on its own: any list parse_remote_addrs builds, either   *)
(* family                                                                  *)
(* ---------------------------------------------------------------------- *)
InitMat ==
  /\ stage = "conv_list_addrs"
  /\ trace = <<>>
  /\ err = ""
  /\ opts = <<>>
  /\ argv \in SeqsUpTo(Hosts, MaxArgs)
  /\ parse_remote_addrs(argv, 0).err = ""
  /\ mcast_addr_s = NULL
  /\ ip_ver \in {4, 6}
  /\ negotiated = ip_ver
  /\ ai_heap = parse_remote_addrs(argv, 0).heap
  /\ ai_list = parse_remote_addrs(argv, 0).list
  /\ uaf = FALSE
  /\ ifa_local = NoAddr
  /\ ai_local = NotYet
  /\ mcast_addr = NoAddr
  /\ local_addr = NoAddr
  /\ single_addr = FALSE
  /\ freed_items = {}

NextMat == ConvListAddrs

SpecMat == InitMat /\ [][NextMat]_vars

(* ---------------------------------------------------------------------- *)
(* Vocabulary of the properties                                             *)
(* ---------------------------------------------------------------------- *)
Entered(s) == \E i \in 1..Len(trace) : trace[i] = s
FailedIn(s) == stage = "fatal" /\ trace # <<>> /\ trace[Len(trace)] = s
LastOpt == IF opts = <<>> THEN 0 ELSE opts[Len(opts)]
ListIds == {ai_list[i].ai : i \in 1..Len(ai_list)}
Stored == {i \in 1..Len(ai_heap) : ai_heap[i].stored}
HasFamily(i, f) == \E a \in Range(ai_heap[i].cand) : a.fam = f
TargetSupport(i) == af_ai_deep_supported_ipv(Cand(ai_heap, ai_list[i]))
McastSupport == af_ai_deep_supported_ipv(af_host_to_ai(mcast_addr_s, 0))
Increasing(list) ==
  \A i, j \in 1..Len(list) : i < j => list[i].ai < list[j].ai

(* C1: once return_ip_ver has been entered, what it returns is 0, 4 or 6,  *)
(* and when the last -4/-6 option forced a family it returns that family   *)
(* and does not end the run, whatever the multicast label and the targets  *)
(* support.                                                                *)
C1_ForcedFamilyWins ==
  Entered("return_ip_ver") =>
    /\ (~FailedIn("return_ip_ver") => negotiated \in {0, 4, 6})
    /\ (LastOpt \in {4, 6} =>
          negotiated = LastOpt /\ ~FailedIn("return_ip_ver"))

C1_Witness ==
  /\ opts = <<6, 4>>
  /\ mcast_addr_s = "m6"
  /\ negotiated = 4
  /\ stage = "af_find_local_ai"

(* C2: with no forced family, return_ip_ver ends the run when (a) the      *)
(* multicast label supports exactly one family and some target supports    *)
(* only the other, or (b) the multicast label is absent or supports both   *)
(* and the list holds a v4-only and a v6-only target, wherever they stand. *)
ConflictA ==
  /\ mcast_addr_s # NULL
  /\ McastSupport \in {4, 6}
  /\ \E i \in 1..Len(ai_list) : TargetSupport(i) \in {4, 6} \ {McastSupport}

ConflictB ==
  /\ mcast_addr_s = NULL \/ McastSupport = 0
  /\ \E i, j \in 1..Len(ai_list) : TargetSupport(i) = 4 /\ TargetSupport(j) = 6

C2_ConflictIsFatal ==
  (Entered("return_ip_ver") /\ LastOpt = 0 /\ (ConflictA \/ ConflictB)) =>
    /\ FailedIn("return_ip_ver")
    /\ err = "mismatch"
    /\ negotiated = NotYet

C2_Witness ==
  /\ argv = <<"d", "b", "a">>
  /\ mcast_addr_s = "md"
  /\ ConflictB
  /\ FailedIn("return_ip_ver")

(* C3 as stated: any resolved argument whose chain holds a loopback        *)
(* address ends the run with the loopback rejection in parse_remote_addrs, *)
(* before return_ip_ver, also when the chain duplicates a listed address.  *)
LoopbackRejected ==
  /\ FailedIn("parse_remote_addrs")
  /\ err = "loopback"
  /\ ~Entered("return_ip_ver")

C3_AnyLoopbackRejected ==
  (\E i \in 1..Len(ai_heap) : af_ai_deep_is_loopback(ai_heap[i].cand)) =>
    LoopbackRejected

(* C3 amended: the rejection is owed to every resolved argument whose      *)
(* chain holds a loopback address and matches no address already in the    *)
(* list; a chain that matches a listed address is dropped as a duplicate   *)
(* before the loopback test.                                               *)
DupOfStored(i) ==
  \E j \in 1..(i - 1) :
    ai_heap[j].stored /\ af_ai_deep_eq(ai_heap[i].cand, ai_heap[j].cand)

C3_NewLoopbackRejected ==
  (\E i \in 1..Len(ai_heap) :
      af_ai_deep_is_loopback(ai_heap[i].cand) /\ ~DupOfStored(i)) =>
    LoopbackRejected

C3_Witness ==
  /\ argv = <<"d", "lo", "a">>
  /\ Len(ai_heap) = 2
  /\ LoopbackRejected

(* C4 as stated: with N > 1 arguments, one of them local, the list after   *)
(* conv_local_addr has N - 1 entries, lacks the local entry, keeps         *)
(* argument order, and single_addr is false.                               *)
C4_ArgsMinusOne ==
  (stage = "done" /\ Len(argv) > 1) =>
    /\ Len(ai_list) = Len(argv) - 1
    /\ ai_local \notin ListIds
    /\ Increasing(ai_list)
    /\ ~single_addr

(* C4 amended: N counts the targets parse_remote_addrs put in the list,    *)
(* duplicates discarded.  With N > 1 the list after conv_local_addr has    *)
(* N - 1 entries: the stored targets minus the local one, in argument      *)
(* order; the local item is released and single_addr is false.             *)
C4_ListMinusOne ==
  (stage = "done" /\ Cardinality(Stored) > 1) =>
    /\ Len(ai_list) = Cardinality(Stored) - 1
    /\ ListIds = Stored \ {ai_local}
    /\ ai_local \in Stored
    /\ Increasing(ai_list)
    /\ ai_local \in freed_items
    /\ ~single_addr

C4_Witness ==
  /\ stage = "done"
  /\ Len(argv) = 3
  /\ Cardinality(Stored) = 3
  /\ ai_local = 2
  /\ ListIds = {1, 3}

(* C5: with exactly one argument, which is the local interface's address,  *)
(* after conv_local_addr single_addr is true and the list still holds that *)
(* one entry, neither removed nor released.                                *)
C5_SingleTargetKept ==
  (stage = "done" /\ Len(argv) = 1) =>
    /\ single_addr
    /\ Len(ai_list) = 1
    /\ ai_list[1].ai = ai_local
    /\ ai_list[1].host_name = argv[1]
    /\ freed_items = {}

C5_Witness ==
  /\ stage = "done"
  /\ argv = <<"d">>
  /\ single_addr
  /\ local_addr.host_name = "d"

C7_NegotiatedIsMaterialized ==
  (LastOpt = 0 /\ negotiated \in {4, 6}) =>
    /\ \A i \in Stored : HasFamily(i, negotiated)
    /\ Entered("conv_list_addrs") =>
         \A i \in 1..Len(ai_list) : ai_list[i].sas.fam = negotiated

C7_Witness ==
  /\ LastOpt = 0
  /\ negotiated = 4
  /\ argv = <<"d", "a">>
  /\ stage = "conv_local_addr"
  /\ ai_list[1].sas = U(4, 3)

StatedOrder ==
  <<"parse_remote_addrs", "af_find_local_ai", "return_ip_ver",
    "conv_params_mcast", "conv_local_addr", "conv_list_addrs">>

C9_StatedOrder ==
  stage = "done" => SubSeq(trace, 2, Len(trace)) = StatedOrder

(* C9 amended: a run that reaches the end went parse_remote_addrs,         *)
(* return_ip_ver, af_find_local_ai, conv_params_mcast, conv_list_addrs,    *)
(* conv_local_addr: the negotiator ends before the local lookup starts and *)
(* the materializer ends before the local address extractor starts.        *)
CalledOrder ==
  <<"parse_remote_addrs", "return_ip_ver", "af_find_local_ai",
    "conv_params_mcast", "conv_list_addrs", "conv_local_addr">>

C9_CalledOrder ==
  stage = "done" => SubSeq(trace, 2, Len(trace)) = CalledOrder

C9_Witness ==
  /\ stage = "done"
  /\ Len(trace) = 7
  /\ local_addr # NoAddr

(* C10: every chain parse_remote_addrs obtained is released exactly once   *)
(* in a run that returns: a duplicate at once by parse_remote_addrs and    *)
(* never stored, a stored one by conv_list_addrs and by nothing before it; *)
(* none is released twice or read after its release, and none is left      *)
(* unreleased when cli_parse returns.                                      *)
C10_ReleasedOnce ==
  /\ ~uaf
  /\ \A i \in 1..Len(ai_heap) : ai_heap[i].frees <= 1
  /\ stage # "fatal" =>
       \A i \in 1..Len(ai_heap) :
         ~ai_heap[i].stored => ai_heap[i].frees = 1 /\ i \notin ListIds
  /\ ~Entered("conv_list_addrs") =>
       \A i \in Stored : ai_heap[i].frees = 0
  /\ stage = "done" => \A i \in 1..Len(ai_heap) : ai_heap[i].frees = 1

C10_Witness ==
  /\ stage = "done"
  /\ Len(ai_heap) = 3
  /\ Cardinality(Stored) = 2

====
